---- MODULE Spec2Model ----
(***************************************************************************)
(* Model of package gosane: the SANE type/constant vocabulary, the         *)
(* SStatus.Error message lookup and the Init stub.                         *)
(*                                                                         *)
(* The package keeps no state of its own.  The state of the model is the   *)
(* last call made by a client: which operation (op), its arguments (args), *)
(* its result (ret), and the number of times an AuthorizationCallback has  *)
(* been invoked so far (authCalls).                                        *)
(***************************************************************************)
EXTENDS Integers, FiniteSets, Sequences, TLC

VARIABLES op, args, ret, authCalls

vars == <<op, args, ret, authCalls>>

(* ------------------------------ bounds --------------------------------- *)
\* version codes passed to Init range over MinVersion..MaxVersion
MaxVersion == 3
\* number of distinct non-nil callbacks handed to Init
NumCallbacks == 2
\* SStatus values looked up range over 0..MaxStatus (12.. are undefined codes)
MaxStatus == 20
\* Capabilities bitmasks converted from integers range over 0..MaxMask
MaxMask == 300

(* --------------------------- SStatus constants -------------------------- *)
Good == 0
Unsupported == 1
Cancelled == 2
DeviceBusy == 3
Inval == 4
Eof == 5
Jammed == 6
NoDocs == 7
CoverOpen == 8
IoError == 9
NoMem == 10
AccessDenied == 11

StatusCodes ==
  <<Good, Unsupported, Cancelled, DeviceBusy, Inval, Eof, Jammed, NoDocs,
    CoverOpen, IoError, NoMem, AccessDenied>>

NonGoodCodes == { StatusCodes[i] : i \in 2..Len(StatusCodes) }

\* the message table as documented for the non-Good codes
DocumentedMessage ==
  [c \in 1..11 |->
     CASE c = 1  -> "Operation is not supported"
       [] c = 2  -> "Operation was cancelled"
       [] c = 3  -> "Device is busy---retry later"
       [] c = 4  -> "Data or argument is invalid"
       [] c = 5  -> "No more data available (end-of-file)"
       [] c = 6  -> "Document feeder jammed"
       [] c = 7  -> "Document feeder out of documents"
       [] c = 8  -> "Scanner cover is open"
       [] c = 9  -> "Error during device I/O"
       [] c = 10 -> "Out of memory"
       [] c = 11 -> "Access to resource has been denied"]

(* ---------------------------- SStatus.Error ----------------------------- *)
\* variant: a default branch reports unknown codes
ErrorWithDefault(e) ==
  IF e \in 1..11 THEN DocumentedMessage[e]
  ELSE IF e = Good THEN "" ELSE "Unknown status"

\* variant: Good has a case of its own
ErrorNoError(e) ==
  IF e \in 1..11 THEN DocumentedMessage[e]
  ELSE IF e = Good THEN "No error" ELSE ""

\* variant: the Jammed case is missing
ErrorMissingCase(e) ==
  IF e \in 1..11 /\ e # Jammed THEN DocumentedMessage[e] ELSE ""

\* variant: NoDocs reuses the message of Jammed
ErrorDuplicate(e) ==
  IF e = NoDocs THEN DocumentedMessage[Jammed]
  ELSE IF e \in 1..11 THEN DocumentedMessage[e] ELSE ""

\* var errString string; switch e { case ...: errString = ... }; return errString
Error(e) ==
  CASE e = Unsupported  -> "Operation is not supported"
    [] e = Cancelled    -> "Operation was cancelled"
    [] e = DeviceBusy   -> "Device is busy---retry later"
    [] e = Inval        -> "Data or argument is invalid"
    [] e = Eof          -> "No more data available (end-of-file)"
    [] e = Jammed       -> "Document feeder jammed"
    [] e = NoDocs       -> "Document feeder out of documents"
    [] e = CoverOpen    -> "Scanner cover is open"
    [] e = IoError      -> "Error during device I/O"
    [] e = NoMem        -> "Out of memory"
    [] e = AccessDenied -> "Access to resource has been denied"
    [] OTHER            -> ""

(* ------------------------------- Init ----------------------------------- *)
\* the nil callback and the non-nil callbacks a client may pass
NilCallback == 0
Callbacks == 0..NumCallbacks
MinVersion == -1
Versions == MinVersion..MaxVersion

\* an error interface value: its dynamic type and the value it carries
NilError == [dynType |-> "nil", val |-> 0]
StatusError(s) == [dynType |-> "SStatus", val |-> s]

\* variant: Init rejects a nil callback and a negative version code
InitResultValidating(verionCode, authorize) ==
  IF authorize = NilCallback \/ verionCode < 0
  THEN StatusError(Inval) ELSE StatusError(Good)

\* variant: success is reported as the nil error
InitResultNil(verionCode, authorize) == NilError

\* return SStatus(Good)
InitResult(verionCode, authorize) == StatusError(Good)

(* ------------------------- Capabilities flags --------------------------- *)
\* x >> n and x << n on non-negative values
Shr(x, n) == x \div (2 ^ n)
Shl(x, n) == x * (2 ^ n)

RECURSIVE BitAnd(_, _)
BitAnd(a, b) ==
  IF a = 0 \/ b = 0 THEN 0
  ELSE (a % 2) * (b % 2) + 2 * BitAnd(a \div 2, b \div 2)

RECURSIVE BitOr(_, _)
BitOr(a, b) ==
  IF a = 0 THEN b
  ELSE IF b = 0 THEN a
  ELSE (IF a % 2 = 1 \/ b % 2 = 1 THEN 1 ELSE 0)
       + 2 * BitOr(a \div 2, b \div 2)

SoftSelect == 1
\* variant: the next bit up
HardSelectShl == Shl(SoftSelect, 1)
HardSelect == Shr(SoftSelect, 1)
SoftDetect == Shr(HardSelect, 1)
Emulated == Shr(SoftDetect, 1)
Automatic == Shr(Emulated, 1)
Inactive == Shr(Automatic, 1)
Advanced == Shr(Inactive, 1)
Hidden == Shr(Advanced, 1)
AlwaysSettable == Shr(Hidden, 1)

FlagOrder ==
  <<"SoftSelect", "HardSelect", "SoftDetect", "Emulated", "Automatic",
    "Inactive", "Advanced", "Hidden", "AlwaysSettable">>

FlagNames == { FlagOrder[i] : i \in 1..Len(FlagOrder) }

FlagValue(f) ==
  CASE f = "SoftSelect"     -> SoftSelect
    [] f = "HardSelect"     -> HardSelect
    [] f = "SoftDetect"     -> SoftDetect
    [] f = "Emulated"       -> Emulated
    [] f = "Automatic"      -> Automatic
    [] f = "Inactive"       -> Inactive
    [] f = "Advanced"       -> Advanced
    [] f = "Hidden"         -> Hidden
    [] f = "AlwaysSettable" -> AlwaysSettable

\* f1 | f2 | ... over the flags named in S
RECURSIVE OrFlags(_)
OrFlags(S) ==
  IF S = {} THEN 0
  ELSE LET f == CHOOSE x \in S : TRUE
       IN  BitOr(FlagValue(f), OrFlags(S \ {f}))

\* m & F == F
IsSet(m, F) == BitAnd(m, F) = F

(* ------------------- typed values and their conversions ----------------- *)
TypeNames == {"SStatus", "Capabilities", "ConstraintType", "ValueType", "ValueUnit"}

\* the declared underlying type of each named integer type
Underlying(T) ==
  CASE T = "SStatus"        -> "uint"
    [] T = "Capabilities"   -> "int32"
    [] T = "ConstraintType" -> "int32"
    [] T = "ValueType"      -> "uint"
    [] T = "ValueUnit"      -> "uint"

\* width in bits of an underlying type (uint is at least 32 bits wide)
KindBits(k) == 32

\* the value n as held by an integer of the given width; every value the
\* model uses lies in 0..2^31-1, which a 32-bit integer of either
\* signedness holds unchanged
Convert(n, bits) == IF bits >= 32 THEN n ELSE n % (2 ^ bits)

ConstraintTypeTags == 0..3
ValueTypeTags == 0..5
ValueUnitTags == 0..6

ValuesOf(T) ==
  CASE T = "SStatus"        -> 0..MaxStatus
    [] T = "Capabilities"   -> 0..MaxMask
    [] T = "ConstraintType" -> ConstraintTypeTags
    [] T = "ValueType"      -> ValueTypeTags
    [] T = "ValueUnit"      -> ValueUnitTags

\* uint(v) / int32(v): the typed value as its underlying integer
Encode(tv) ==
  [kind |-> Underlying(tv.type),
   val  |-> Convert(tv.val, KindBits(Underlying(tv.type)))]

\* variant: the integer passes through an 8-bit type (SByte) on the way back
DecodeNarrow(T, u) == [type |-> T, val |-> Convert(u.val, 8)]

\* T(n): the underlying integer as a value of the named type
Decode(T, u) == [type |-> T, val |-> Convert(u.val, KindBits(Underlying(T)))]

(* ------------------------------ actions --------------------------------- *)
Init ==
  /\ op = "none"
  /\ args = [none |-> TRUE]
  /\ ret = [none |-> TRUE]
  /\ authCalls = 0

\* err := Init(verionCode, authorize)
CallInit ==
  \E v \in Versions, a \in Callbacks :
    /\ op' = "Init"
    /\ args' = [verionCode |-> v, authorize |-> a]
    /\ ret' = InitResult(v, a)
    /\ UNCHANGED authCalls

\* msg := e.Error()
CallError ==
  \E e \in 0..MaxStatus :
    /\ op' = "Error"
    /\ args' = [e |-> e]
    /\ ret' = [errString |-> Error(e)]
    /\ UNCHANGED authCalls

\* cap := f1 | f2 | ... for a set of the declared flags
CallOrFlags ==
  \E S \in SUBSET FlagNames :
    /\ op' = "OrFlags"
    /\ args' = [flags |-> S]
    /\ ret' = [mask |-> OrFlags(S)]
    /\ UNCHANGED authCalls

\* cap := Capabilities(n)
CallCapabilities ==
  \E n \in 0..MaxMask :
    /\ op' = "Capabilities"
    /\ args' = [n |-> n]
    /\ ret' = [mask |-> Decode("Capabilities", [kind |-> "int32", val |-> n]).val]
    /\ UNCHANGED authCalls

\* w := T(underlying(v)) for a typed value v
CallRoundTrip ==
  \E T \in TypeNames :
    \E v \in ValuesOf(T) :
      /\ op' = "RoundTrip"
      /\ args' = [type |-> T, val |-> v]
      /\ ret' = Decode(T, Encode([type |-> T, val |-> v]))
      /\ UNCHANGED authCalls

Next ==
  \/ CallInit
  \/ CallError
  \/ CallOrFlags
  \/ CallCapabilities
  \/ CallRoundTrip

Spec == Init /\ [][Next]_vars

(* ------------------------------ properties ------------------------------ *)

\* C1: for every version code and every callback value (nil included) Init
\* returns the status Good, whatever the arguments, and no callback has
\* been invoked.
C1_InitReturnsGood ==
  op = "Init" =>
    /\ ret.dynType = "SStatus"
    /\ ret.val = Good
    /\ authCalls = 0

C1_Witness ==
  /\ op = "Init"
  /\ args.authorize = NilCallback
  /\ args.verionCode = MinVersion
  /\ ret.val = Good

\* C2: for each of the eleven non-Good codes Error returns the non-empty
\* string of the documented table; holding in every reachable state, every
\* call with the same code returns that same string.
C2_ErrorMatchesTable ==
  (op = "Error" /\ args.e \in NonGoodCodes) =>
    /\ ret.errString # ""
    /\ ret.errString = DocumentedMessage[args.e]

C2_Witness ==
  /\ op = "Error"
  /\ args.e = Jammed
  /\ ret.errString = "Document feeder jammed"

\* C3: for the code Good, Error returns the empty string.
C3_GoodIsEmpty ==
  (op = "Error" /\ args.e = Good) => ret.errString = ""

C3_Witness ==
  /\ op = "Error"
  /\ args.e = Good
  /\ ret.errString = ""

\* C4: for every SStatus value greater than AccessDenied (11) Error returns
\* the empty string; there is no fallback message.
C4_UnknownIsEmpty ==
  (op = "Error" /\ args.e > AccessDenied) => ret.errString = ""

C4_Witness ==
  /\ op = "Error"
  /\ args.e = AccessDenied + 1
  /\ ret.errString = ""

\* bit i of a non-negative value
Bit(n, i) == (n \div (2 ^ i)) % 2

\* v is w shifted right by one bit, bit by bit
IsShiftRightByOne(v, w) ==
  /\ \A i \in 0..29 : Bit(v, i) = Bit(w, i + 1)
  /\ Bit(v, 30) = 0

C6_FlagsDoNotOverlap ==
  op = "OrFlags" =>
    /\ \A f, g \in args.flags :
         f # g => /\ FlagValue(f) # FlagValue(g)
                  /\ BitAnd(FlagValue(f), FlagValue(g)) = 0
    /\ \A S \in SUBSET FlagNames : OrFlags(S) = ret.mask => S = args.flags

C8_SelectExclusive ==
  op \in {"OrFlags", "Capabilities"} =>
    /\ ~(IsSet(ret.mask, SoftSelect) /\ IsSet(ret.mask, HardSelect))
    /\ IsSet(ret.mask, SoftSelect) => IsSet(ret.mask, SoftDetect)

\* C9: the twelve status codes are the pairwise distinct values 0..11 with
\* Good = 0, and two different non-Good codes never share a message.
C9_MessagesOneToOne ==
  /\ Good = 0
  /\ { StatusCodes[i] : i \in 1..Len(StatusCodes) } = 0..11
  /\ \A i, j \in 1..Len(StatusCodes) : i # j => StatusCodes[i] # StatusCodes[j]
  /\ (op = "Error" /\ args.e \in NonGoodCodes) =>
       \A c \in NonGoodCodes : Error(c) = ret.errString => c = args.e

C9_Witness ==
  /\ op = "Error"
  /\ args.e = NoDocs
  /\ ret.errString = "Document feeder out of documents"

\* C10: the error returned by Init is never the nil error: it is a present
\* error value of dynamic type SStatus carrying Good, and its Error()
\* message is the empty string.
C10_InitErrorNonNil ==
  op = "Init" =>
    /\ ret # NilError
    /\ ret = StatusError(Good)
    /\ Error(ret.val) = ""

C10_Witness ==
  /\ op = "Init"
  /\ args.authorize # NilCallback
  /\ ret.dynType = "SStatus"
  /\ Error(ret.val) = ""

====
